---- MODULE Spec2Model ----
(***************************************************************************)
(* TELS: naming of the materials of one TEP code.                          *)
(*                                                                         *)
(* The state is the Material table restricted to one TEP code (rows in id  *)
(* order) and the MaterialList master catalog.  Strings are sequences of   *)
(* one-character strings, so that str.strip, the case-insensitive regular  *)
(* expression ^base( \d+)?$, int() and the f-string formatting of the      *)
(* allocator are computed character by character.                          *)
(***************************************************************************)
EXTENDS Integers, Sequences, FiniteSets, TLC

(***************************************************************************)
(* Bounds of the model.                                                    *)
(***************************************************************************)
\* number of Material rows ever created in the scope (ids 1..MaxId)
MaxId == 4

\* material part codes of the requests (mat_partcode)
PartCodes == {<<"X">>, <<"Y">>, <<"Z">>}

\* mat_partname of the master row (MaterialList) a request finds for its part
\* code.  The catalog is edited freely between two requests (dashboard
\* add_material and update_material, the CSV import), so the row a request
\* reads is an input of the request: any of these names, or no row at all.
BaseNames == {<<"A">>, <<"a", " ", "1">>}

(***************************************************************************)
(* Characters and strings.                                                 *)
(***************************************************************************)
UpperChars ==
  <<"A", "B", "C", "D", "E", "F", "G", "H", "I", "J", "K", "L", "M",
    "N", "O", "P", "Q", "R", "S", "T", "U", "V", "W", "X", "Y", "Z">>
LowerChars ==
  <<"a", "b", "c", "d", "e", "f", "g", "h", "i", "j", "k", "l", "m",
    "n", "o", "p", "q", "r", "s", "t", "u", "v", "w", "x", "y", "z">>
DigitChars == <<"0", "1", "2", "3", "4", "5", "6", "7", "8", "9">>

\* str.lower() on one character
UpperSet == { UpperChars[i] : i \in DOMAIN UpperChars }

LowerOf ==
  [c \in UpperSet |-> LowerChars[CHOOSE i \in DOMAIN UpperChars : UpperChars[i] = c]]

LowerChar(ch) == IF ch \in UpperSet THEN LowerOf[ch] ELSE ch

\* str.lower()
Lower(s) == [i \in DOMAIN s |-> LowerChar(s[i])]

\* the regular expression class \d
DigitSet == { DigitChars[i] : i \in DOMAIN DigitChars }

IsDigit(ch) == ch \in DigitSet

DigitOf ==
  [c \in DigitSet |-> (CHOOSE i \in DOMAIN DigitChars : DigitChars[i] = c) - 1]

DigitVal(ch) == DigitOf[ch]

\* int(s) for a string of decimal digits
RECURSIVE StrToInt(_)
StrToInt(s) ==
  IF Len(s) = 0 THEN 0
  ELSE 10 * StrToInt(SubSeq(s, 1, Len(s) - 1)) + DigitVal(s[Len(s)])

\* the formatting of an int inside an f-string
RECURSIVE IntToStr(_)
IntToStr(n) ==
  IF n < 10 THEN <<DigitChars[n + 1]>>
  ELSE IntToStr(n \div 10) \o <<DigitChars[(n % 10) + 1]>>

\* str.strip(): leading and trailing blanks removed
RECURSIVE Strip(_)
Strip(s) ==
  IF Len(s) = 0 THEN s
  ELSE IF Head(s) = " " THEN Strip(Tail(s))
  ELSE IF s[Len(s)] = " " THEN Strip(SubSeq(s, 1, Len(s) - 1))
  ELSE s

UNKNOWN == <<"U", "N", "K", "N", "O", "W", "N">>

\* f"{base} {n}"
Numbered(base, n) == base \o <<" ">> \o IntToStr(n)

(***************************************************************************)
(* The pattern ^base( \d+)?$ with base escaped, matched case-insensitively.*)
(***************************************************************************)
\* the characters of a name that are operators of a regular expression
MetaChars == {".", "("}

\* the base put into the pattern as it is: its "." is the any-character operator
ReEscape_None(ch) == ch \notin MetaChars

\* re.escape(base): every character of the base stands for itself in the
\* pattern (TRUE), none is left as an operator
ReEscape(ch) == TRUE

\* one character of the name against one character of the base in the
\* pattern, case ignored
ItemMatches(pch, ch) ==
  IF ReEscape(pch) THEN LowerChar(ch) = LowerChar(pch)
  ELSE pch = "."

\* the first characters of the name under the escaped base
BaseMatches(base, n) ==
  \A i \in DOMAIN base : ItemMatches(base[i], n[i])

\* the name is the bare base (group 1 absent)
MatchesBare(base, n) == Len(n) = Len(base) /\ BaseMatches(base, n)

\* the name is base, one blank, one or more digits (group 1 present)
MatchesNumbered(base, n) ==
  /\ Len(n) >= Len(base) + 2
  /\ BaseMatches(base, n)
  /\ n[Len(base) + 1] = " "
  /\ \A i \in (Len(base) + 2)..Len(n) : IsDigit(n[i])

\* group 1 of the match
NumberGroup(base, n) == SubSeq(n, Len(base) + 2, Len(n))

IRegexMatch(base, n) == MatchesBare(base, n) \/ MatchesNumbered(base, n)

(***************************************************************************)
(* State.                                                                  *)
(***************************************************************************)
VARIABLES
  materials,     \* Material rows of the TEP code, in id order: [id, code, name],
                 \* with the history field renames: renames by the allocator
  nextId,        \* the id the next Material row gets
  last,          \* the last request and its outcome
  renamedBases,  \* history: lower-cased bases the allocator has renamed an item for
  run,           \* history: the adds since the empty scope, while they share one base
  reqs,          \* the API requests in flight: request -> pc, part code, final_name
  parts,         \* customer.parts of the customer of the TEP code: [code, name]
  forecast,      \* the forecast request served: a date token and its month index,
                 \* a range request and its answer, or a record set and its label
  users          \* the accounts (auth User): the next id and the rows

vars == <<materials, nextId, last, renamedBases, run, reqs, parts, forecast, users>>

\* MaterialList.objects.filter(mat_partcode=...).first() is None
NoRow == <<"-">>

MasterRows == BaseNames \cup {NoRow}

Max(S) == CHOOSE x \in S : \A y \in S : y <= x

(***************************************************************************)
(* _allocate_material_name                                                 *)
(***************************************************************************)
\* the value None of a name
None == <<"None">>

\* (s or "")
OrEmpty(s) == IF s = None THEN <<>> ELSE s

\* the base without the "UNKNOWN" of the empty name
AllocBase_NoFallback(base_name) == Strip(OrEmpty(base_name))

\* base = (base_name or "").strip(), "UNKNOWN" when empty
AllocBase(base_name) ==
  IF Strip(OrEmpty(base_name)) = <<>> THEN UNKNOWN ELSE Strip(OrEmpty(base_name))

\* qs without the exclude() of the part code
ExistingNames_NoExclude(mats, base, excl) ==
  SelectSeq(mats, LAMBDA m : IRegexMatch(base, m.name))

\* qs: rows whose name matches the pattern, the excluded part code left out
ExistingNames(mats, base, excl) ==
  SelectSeq(mats, LAMBDA m : IRegexMatch(base, m.name)
                             /\ (excl = <<>> \/ m.code # excl))

\* numbers: int(group 1) of every name of qs that carries a number
Numbers(base, qs) ==
  { StrToInt(NumberGroup(base, Strip(qs[i].name))) :
      i \in { j \in DOMAIN qs : MatchesNumbered(base, Strip(qs[j].name)) } }

\* existing_base without the exclude() of the part code
ExistingBase_NoExclude(mats, base, excl) ==
  SelectSeq(mats, LAMBDA m : Lower(m.name) = Lower(base))

\* existing_base: rows named base (iexact), the excluded part code left out
ExistingBase(mats, base, excl) ==
  SelectSeq(mats, LAMBDA m : Lower(m.name) = Lower(base)
                             /\ (excl = <<>> \/ m.code # excl))

\* first.mat_partname = f"{base} 1"; first.save()
FirstName(base) == Numbered(base, 1)

\* the name returned with the first rename: f"{base} 2"
SecondName(base) == Numbered(base, 2)

\* the next number without the + 1
NextName_NoIncrement(base, numbers) == Numbered(base, Max(numbers))

\* the next number counted, len(numbers) + 1, instead of max(numbers) + 1
NextName_Count(base, numbers) == Numbered(base, Cardinality(numbers) + 1)

\* f"{base} {max(numbers) + 1}"
NextName(base, numbers) == Numbered(base, Max(numbers) + 1)

\* the assignment without the save()
SaveName_NotSaved(mats, id, name) == mats

\* obj.mat_partname = name; obj.save(update_fields=["mat_partname"])
SaveName(mats, id, name) ==
  [i \in DOMAIN mats |->
     IF mats[i].id = id
     THEN [mats[i] EXCEPT !.name = name, !.renames = @ + 1]
     ELSE mats[i]]

\* the result: the returned name, the rows after the call, the id renamed (0: none)
AllocateMaterialName(mats, base_name, exclude_partcode) ==
  LET base    == AllocBase(base_name)
      excl    == Strip(exclude_partcode)
      qs      == ExistingNames(mats, base, excl)
      numbers == Numbers(base, qs)
      eb      == ExistingBase(mats, base, excl)
  IN  IF qs = <<>>
      THEN [name |-> base, mats |-> mats, renamed |-> 0]
      ELSE IF numbers = {}
      THEN IF eb # <<>>
           THEN [name    |-> SecondName(base),
                 mats    |-> SaveName(mats, Head(eb).id, FirstName(base)),
                 renamed |-> Head(eb).id]
           ELSE [name |-> SecondName(base), mats |-> mats, renamed |-> 0]
      ELSE [name |-> NextName(base, numbers), mats |-> mats, renamed |-> 0]

(***************************************************************************)
(* The store: Material.objects.get_or_create and the history it leaves.    *)
(***************************************************************************)
HasCode(mats, code) == \E i \in DOMAIN mats : mats[i].code = code

\* a create without the lookup of the part code
GetOrCreate_AlwaysCreates(mats, id, code, name) ==
  [mats |-> Append(mats, [id |-> id, code |-> code, name |-> name, renames |-> 0]),
   created |-> TRUE]

\* get_or_create(tep_code=tep, mat_partcode=code, defaults={mat_partname: name})
GetOrCreate(mats, id, code, name) ==
  IF HasCode(mats, code)
  THEN [mats |-> mats, created |-> FALSE]
  ELSE [mats |-> Append(mats, [id |-> id, code |-> code, name |-> name,
                               renames |-> 0]),
        created |-> TRUE]

NoRequest ==
  [code |-> <<>>, base |-> <<>>, ret |-> <<>>, renamed |-> 0, outcome |-> "none"]

\* the part code of the last request, the base and the result of its allocator
\* call, the id the call renamed (0: none) and how the request ended
Request(code, base, ret, renamed, outcome) ==
  [code |-> code, base |-> base, ret |-> ret, renamed |-> renamed,
   outcome |-> outcome]

BasesAfter(r, base_name) ==
  IF r.renamed # 0 THEN renamedBases \cup {Lower(AllocBase(base_name))}
  ELSE renamedBases

NoRun == [ok |-> FALSE, base |-> <<>>, k |-> 0]

\* the run of adds goes on with a created row of the same base and stops otherwise
RunAfter(created, base_name) ==
  IF created /\ run.ok /\ (run.k = 0 \/ run.base = AllocBase(base_name))
  THEN [ok |-> TRUE, base |-> AllocBase(base_name), k |-> run.k + 1]
  ELSE NoRun

\* an add-material request whose master row is missing: rejected, nothing written
MasterNotFound(code) == UNCHANGED vars

\* the allocator and get_or_create inside one transaction.atomic(): an
\* exception rolls both back, a "not created" return commits the allocator's write
AddInOneTransaction(code, base_name, fail) ==
  \E r \in {AllocateMaterialName(materials, base_name, code)} :
  \E g \in {GetOrCreate(r.mats, nextId, code, r.name)} :
    /\ g.created => nextId <= MaxId
    /\ UNCHANGED <<reqs, forecast, users>>
    /\ IF fail
       THEN /\ last' = Request(code, AllocBase(base_name), r.name, 0, "error")
            /\ run' = NoRun
            /\ UNCHANGED <<materials, nextId, renamedBases>>
       ELSE /\ materials' = g.mats
            /\ nextId' = IF g.created THEN nextId + 1 ELSE nextId
            /\ renamedBases' = BasesAfter(r, base_name)
            /\ run' = RunAfter(g.created, base_name)
            /\ last' = Request(code, AllocBase(base_name), r.name, r.renamed,
                               IF g.created THEN "created" ELSE "conflict")

(***************************************************************************)
(* customer.parts: _normalize_space, _unique_partname_for_customer and     *)
(* _ensure_customer_part_entry.                                            *)
(***************************************************************************)
\* re.sub(r"\s+", " ", s) on a stripped string
RECURSIVE CollapseSpace(_)
CollapseSpace(s) ==
  IF Len(s) <= 1 THEN s
  ELSE IF s[1] = " " /\ s[2] = " " THEN CollapseSpace(Tail(s))
  ELSE <<s[1]>> \o CollapseSpace(Tail(s))

\* _normalize_space
NormalizeSpace(s) == CollapseSpace(Strip(OrEmpty(s)))

\* the part code and the part name of the TEP code whose materials are the scope
TepPartCode == <<"P">>
TepPartName == <<"T">>

\* the entry found by "for p in parts: if _normalize_space(Partcode) == part_code"
HasPart(ps, part_code) ==
  \E i \in DOMAIN ps : NormalizeSpace(ps[i].code) = part_code

FirstPart(ps, part_code) ==
  ps[CHOOSE i \in DOMAIN ps :
       /\ NormalizeSpace(ps[i].code) = part_code
       /\ \A j \in 1..(i - 1) : NormalizeSpace(ps[j].code) # part_code]

\* existing_names: the normalized, lower-cased names of the entries
ExistingPartnames(ps) ==
  { Lower(NormalizeSpace(ps[i].name)) :
      i \in { j \in DOMAIN ps : NormalizeSpace(ps[j].name) # <<>> } }

\* the loop from i = 2
RECURSIVE FirstFreeName_FromTwo(_, _, _)
FirstFreeName_FromTwo(base_name, names, i) ==
  IF Lower(Numbered(base_name, i + 1)) \notin names THEN Numbered(base_name, i + 1)
  ELSE FirstFreeName_FromTwo(base_name, names, i + 1)

\* the loop with i += 2
RECURSIVE FirstFreeName_ByTwo(_, _, _)
FirstFreeName_ByTwo(base_name, names, i) ==
  IF Lower(Numbered(base_name, i)) \notin names THEN Numbered(base_name, i)
  ELSE FirstFreeName_ByTwo(base_name, names, i + 2)

\* while True: candidate = f"{base_name} {i}", from i on
RECURSIVE FirstFreeName(_, _, _)
FirstFreeName(base_name, names, i) ==
  IF Lower(Numbered(base_name, i)) \notin names THEN Numbered(base_name, i)
  ELSE FirstFreeName(base_name, names, i + 1)

\* _unique_partname_for_customer
UniquePartnameForCustomer(ps, base_name, part_code) ==
  LET base == NormalizeSpace(base_name)
      code == NormalizeSpace(part_code)
  IN  IF HasPart(ps, code)
      THEN IF NormalizeSpace(FirstPart(ps, code).name) # <<>>
           THEN NormalizeSpace(FirstPart(ps, code).name)
           ELSE base
      ELSE IF Lower(base) \notin ExistingPartnames(ps) THEN base
      ELSE FirstFreeName(base, ExistingPartnames(ps), 1)

\* _ensure_customer_part_entry: (changed, used_partname) and customer.parts
EnsureCustomerPartEntry(ps, part_code, part_name) ==
  LET code == NormalizeSpace(part_code)
      name == IF NormalizeSpace(part_name) # <<>> THEN NormalizeSpace(part_name)
              ELSE code
      unique == UniquePartnameForCustomer(ps, name, code)
  IN  IF HasPart(ps, code)
      THEN [changed |-> FALSE,
            used |-> IF NormalizeSpace(FirstPart(ps, code).name) # <<>>
                     THEN NormalizeSpace(FirstPart(ps, code).name)
                     ELSE name,
            parts |-> ps]
      ELSE [changed |-> TRUE, used |-> unique,
            parts |-> Append(ps, [code |-> code, name |-> unique])]

(***************************************************************************)
(* Requests, one at a time.  row is the master row found for the part code,*)
(* fail tells whether the store raises in get_or_create.                   *)
(***************************************************************************)
\* POST /tep-codes/by-code/{tep_code}/materials: the allocator runs in its own
\* transaction.atomic(), get_or_create after it has committed
ApiCreateMaterial(code, row, fail) ==
  IF row = NoRow THEN MasterNotFound(code)
  ELSE
    \E r \in {AllocateMaterialName(materials, row, code)} :
    \E g \in {GetOrCreate(r.mats, nextId, code, r.name)} :
      /\ g.created => nextId <= MaxId
      /\ UNCHANGED <<reqs, parts, forecast, users>>
      /\ materials' = IF fail THEN r.mats ELSE g.mats
      /\ nextId' = IF g.created /\ ~fail THEN nextId + 1 ELSE nextId
      /\ renamedBases' = BasesAfter(r, row)
      /\ run' = RunAfter(g.created /\ ~fail, row)
      /\ last' = Request(code, AllocBase(row), r.name, r.renamed,
                         IF fail THEN "error"
                         ELSE IF g.created THEN "created" ELSE "conflict")

\* dashboard action add_customer_full for a part code of the customer.  For
\* the part code of the TEP code its materials are the scope; for another part
\* code the materials belong to a TEP code that is not part of the state.  An
\* exception rolls the part entry back with the rest, the return on "not
\* created" commits it.
AddCustomerFull(part_code, part_name, code, row, fail) ==
  IF NormalizeSpace(part_code) = <<>> \/ NormalizeSpace(part_name) = <<>>
  THEN UNCHANGED vars
  ELSE IF row = NoRow THEN MasterNotFound(code)
  ELSE
    \E e \in {EnsureCustomerPartEntry(parts, NormalizeSpace(part_code),
                                       NormalizeSpace(part_name))} :
      /\ parts' = IF fail THEN parts ELSE e.parts
      /\ IF NormalizeSpace(part_code) = TepPartCode
         THEN AddInOneTransaction(code, row, fail)
         ELSE /\ last' = Request(NormalizeSpace(part_code), NormalizeSpace(part_name),
                                 e.used, 0,
                                 IF fail THEN "error"
                                 ELSE IF e.changed THEN "part added" ELSE "part known")
              /\ UNCHANGED <<materials, nextId, renamedBases, run, reqs, forecast, users>>

\* one row of the file of POST /upload-csv with customer_name, Partcode,
\* Partname and tep_code filled in; row is the master name after the row's
\* update of the catalog.  The part entry is appended as it is in the file;
\* for the part code of the TEP code the material is updated or created.
UploadCsvRow(partcode, partname, code, row) ==
  IF Strip(partcode) = <<>> \/ Strip(partname) = <<>> THEN UNCHANGED vars
  ELSE
    /\ parts' = IF \E i \in DOMAIN parts : Strip(parts[i].code) = Strip(partcode)
                THEN parts
                ELSE Append(parts, [code |-> Strip(partcode), name |-> Strip(partname)])
    /\ UNCHANGED <<reqs, forecast, users>>
    /\ IF Strip(partcode) # TepPartCode
       THEN /\ last' = Request(Strip(partcode), Strip(partname), Strip(partname), 0,
                               IF parts' = parts THEN "csv part known"
                               ELSE "csv part added")
            /\ UNCHANGED <<materials, nextId, renamedBases, run>>
       ELSE IF HasCode(materials, code)
       THEN /\ last' = Request(code, <<>>, <<>>, 0, "updated")
            /\ run' = NoRun
            /\ UNCHANGED <<materials, nextId, renamedBases>>
       ELSE \E r \in {AllocateMaterialName(materials, row, code)} :
              /\ nextId <= MaxId
              /\ materials' = Append(r.mats, [id |-> nextId, code |-> code,
                                              name |-> r.name, renames |-> 0])
              /\ nextId' = nextId + 1
              /\ renamedBases' = BasesAfter(r, row)
              /\ run' = RunAfter(TRUE, row)
              /\ last' = Request(code, AllocBase(row), r.name, r.renamed, "created")

\* dashboard view add_material_to_tep
AddMaterialToTep(code, row, fail) ==
  IF row = NoRow THEN MasterNotFound(code)
  ELSE AddInOneTransaction(code, row, fail) /\ UNCHANGED parts

\* DELETE /tep-codes/{tep_code}/materials/{mat_partcode}
ApiDeleteMaterial(code) ==
  IF ~HasCode(materials, code) THEN UNCHANGED vars
  ELSE
    /\ materials' = SelectSeq(materials, LAMBDA m : m.code # code)
    /\ last' = Request(code, <<>>, <<>>, 0, "deleted")
    /\ run' = IF materials' = <<>> THEN [ok |-> TRUE, base |-> <<>>, k |-> 0]
              ELSE NoRun
    /\ UNCHANGED <<nextId, renamedBases, reqs, parts, forecast, users>>

\* an account: id, username, is_active, is_superuser, is_staff
Account(id, username, is_active, is_superuser, is_staff) ==
  [id |-> id, username |-> username, is_active |-> is_active,
   is_superuser |-> is_superuser, is_staff |-> is_staff]

\* the accounts after createsuperuser: one active superuser with id 1
FirstUsers == [next |-> 2, rows |-> {Account(1, "admin", TRUE, TRUE, TRUE)}]

\* no date token to resolve
NoForecast == [token |-> <<>>, done |-> TRUE, month |-> {}]

\* requests that run at the same time
Requests == {1, 2}

Idle == [pc |-> "idle", code |-> <<>>, base |-> <<>>, name |-> <<>>]

Init ==
  /\ materials = <<>>
  /\ users = FirstUsers
  /\ nextId = 1
  /\ last = NoRequest
  /\ renamedBases = {}
  /\ run = [ok |-> TRUE, base |-> <<>>, k |-> 0]
  /\ reqs = [q \in Requests |-> Idle]
  /\ parts = <<[code |-> TepPartCode, name |-> TepPartName]>>
  /\ forecast = NoForecast

\* one request at a time, the store never raises
Next ==
  \/ \E code \in PartCodes, row \in MasterRows : ApiCreateMaterial(code, row, FALSE)
  \/ \E code \in PartCodes, row \in MasterRows :
       AddCustomerFull(TepPartCode, TepPartName, code, row, FALSE)
  \/ \E code \in PartCodes, row \in MasterRows : AddMaterialToTep(code, row, FALSE)
  \/ \E code \in PartCodes : ApiDeleteMaterial(code)

Spec == Init /\ [][Next]_vars

\* one request at a time, get_or_create may raise (StorageError)
NextStoreError ==
  \/ \E code \in PartCodes, row \in MasterRows, fail \in BOOLEAN :
       ApiCreateMaterial(code, row, fail)
  \/ \E code \in PartCodes, row \in MasterRows, fail \in BOOLEAN :
       AddCustomerFull(TepPartCode, TepPartName, code, row, fail)
  \/ \E code \in PartCodes, row \in MasterRows, fail \in BOOLEAN :
       AddMaterialToTep(code, row, fail)
  \/ \E code \in PartCodes : ApiDeleteMaterial(code)

SpecStoreError == Init /\ [][NextStoreError]_vars

(***************************************************************************)
(* Requests at the same time, each for a part code that is new to the      *)
(* scope.  A step is one committed transaction: the API request commits    *)
(* the allocator's transaction.atomic() block first and runs get_or_create *)
(* in a second one; add_material_to_tep is taken as one serializable       *)
(* transaction.  No request takes a lock on the scope.                      *)
(***************************************************************************)
NewCode(code) ==
  /\ ~HasCode(materials, code)
  /\ \A q \in Requests : reqs[q].pc = "idle" \/ reqs[q].code # code

\* create_material_by_tep_code up to the end of "with transaction.atomic()"
ApiAllocate(q, code, row) ==
  /\ reqs[q].pc = "idle"
  /\ NewCode(code)
  /\ \E r \in {AllocateMaterialName(materials, row, code)} :
       /\ materials' = r.mats
       /\ renamedBases' = BasesAfter(r, row)
       /\ reqs' = [reqs EXCEPT ![q] = [pc |-> "allocated", code |-> code,
                                        base |-> AllocBase(row), name |-> r.name]]
  /\ run' = NoRun
  /\ UNCHANGED <<nextId, last, parts, forecast, users>>

\* create_material_by_tep_code from Material.objects.get_or_create on
ApiGetOrCreate(q) ==
  /\ reqs[q].pc = "allocated"
  /\ nextId <= MaxId
  /\ \E g \in {GetOrCreate(materials, nextId, reqs[q].code, reqs[q].name)} :
       /\ materials' = g.mats
       /\ nextId' = IF g.created THEN nextId + 1 ELSE nextId
       /\ last' = Request(reqs[q].code, reqs[q].base, reqs[q].name, 0,
                          IF g.created THEN "created" ELSE "conflict")
  /\ reqs' = [reqs EXCEPT ![q] = Idle]
  /\ UNCHANGED <<renamedBases, run, parts, forecast, users>>

\* add_material_to_tep while API requests are in flight
ConcAddMaterialToTep(code, row) ==
  /\ NewCode(code)
  /\ AddInOneTransaction(code, row, FALSE)
  /\ UNCHANGED parts

NextConc ==
  \/ \E q \in Requests, code \in PartCodes, row \in BaseNames : ApiAllocate(q, code, row)
  \/ \E q \in Requests : ApiGetOrCreate(q)
  \/ \E code \in PartCodes, row \in BaseNames : ConcAddMaterialToTep(code, row)

SpecConc == Init /\ [][NextConc]_vars

(***************************************************************************)
(* Properties.                                                             *)
(***************************************************************************)
\* the exclude_partcode values of a call: a part code, or none
Excludes == PartCodes \cup {<<>>}

\* the base names of a call: the catalog names and their other-case forms
CallBases == BaseNames \cup {<<"a">>, <<"A", " ", "1">>}

\* the rows the allocator has to consider: all but the excluded part code
Considered(excl) == { i \in DOMAIN materials : materials[i].code # excl }

\* the stored fields of a row, without its history
Stored(m) == [id |-> m.id, code |-> m.code, name |-> m.name]

StoredRows(mats) == [i \in DOMAIN mats |-> Stored(mats[i])]

NumberOf(base, name) == StrToInt(NumberGroup(base, name))

DistinctNames(mats) ==
  \A i, j \in DOMAIN mats : i # j => Lower(mats[i].name) # Lower(mats[j].name)

\* C1: at every point no two materials of the scope have display names that
\* are equal case-insensitively, and the name an allocator call returned is
\* not the name of another item of the scope.
C1_UniqueNames ==
  /\ DistinctNames(materials)
  /\ last.outcome \in {"created", "conflict"} =>
       \A i \in DOMAIN materials :
         materials[i].code # last.code => Lower(materials[i].name) # Lower(last.ret)

\* C2: k adds of the same base with distinct part codes into the empty scope
\* leave the bare base for k = 1 and 'base 1' .. 'base k' in creation order
\* for k >= 2.
C2_NumberingSequence ==
  run.ok =>
    /\ Len(materials) = run.k
    /\ run.k = 1 => materials[1].name = run.base
    /\ run.k >= 2 =>
         \A i \in 1..run.k : materials[i].name = Numbered(run.base, i)

C2_Witness ==
  /\ run.ok /\ run.k = 3
  /\ materials[3].name = Numbered(run.base, 3)
  /\ last.outcome = "created"

\* C3: whenever the concurrent add requests for new part codes have all
\* finished, no two materials of the scope have equal display names.
C3_ConcurrentAddsDistinct ==
  (\A q \in Requests : reqs[q].pc = "idle") => DistinctNames(materials)

\* C4: a request whose creation step fails leaves no rename behind: the
\* committed scope is the scope before the request.
C4_RenameRolledBackWithCreate ==
  [][last'.outcome = "error" => materials' = materials]_vars

\* C5: a request rejected with 'Material already exists' changes no display
\* name of the scope.
C5_RejectedLeavesScope ==
  [][last'.outcome = "conflict" => StoredRows(materials') = StoredRows(materials)]_vars

\* C6: when no row other than the excluded one is named base or base + ' ' +
\* digits (case-insensitive), the allocator returns base and modifies no row.
C6_NoMatchKeepsBase ==
  \A base \in CallBases, excl \in Excludes :
    (\A i \in Considered(excl) : ~IRegexMatch(base, materials[i].name)) =>
      /\ AllocateMaterialName(materials, base, excl).name = base
      /\ AllocateMaterialName(materials, base, excl).mats = materials

C6_Witness ==
  /\ last.outcome = "created"
  /\ last.ret = last.base
  /\ Len(materials) >= 2
  /\ materials[Len(materials)].name = last.base

\* C7: when exactly one row other than the excluded one matches and it
\* carries the bare base, the allocator renames that row to 'base 1', returns
\* 'base 2' and modifies no other row.
C7_FirstRename ==
  \A base \in CallBases, excl \in Excludes :
    \A i \in Considered(excl) :
      ( /\ MatchesBare(base, materials[i].name)
        /\ \A j \in Considered(excl) \ {i} : ~IRegexMatch(base, materials[j].name) )
      =>
        /\ AllocateMaterialName(materials, base, excl).name = base \o <<" ", "2">>
        /\ StoredRows(AllocateMaterialName(materials, base, excl).mats) =
             [j \in DOMAIN materials |->
                IF j = i
                THEN [Stored(materials[j]) EXCEPT !.name = base \o <<" ", "1">>]
                ELSE Stored(materials[j])]

C7_Witness ==
  /\ last.outcome = "created"
  /\ last.renamed # 0
  /\ last.ret = last.base \o <<" ", "2">>
  /\ \E i \in DOMAIN materials :
       materials[i].id = last.renamed /\ materials[i].name = last.base \o <<" ", "1">>

\* C8: when a numbered variant 'base N' exists among the rows other than the
\* excluded one, the allocator returns 'base M' with M one more than the
\* largest such N and renames no row.
C8_NextNumber ==
  \A base \in CallBases, excl \in Excludes :
    (\E i \in Considered(excl) : MatchesNumbered(base, materials[i].name)) =>
      LET r == AllocateMaterialName(materials, base, excl)
          M == NumberOf(base, r.name)
      IN  /\ MatchesNumbered(base, r.name)
          /\ r.name = Numbered(base, M)
          /\ \E i \in Considered(excl) :
               MatchesNumbered(base, materials[i].name)
               /\ NumberOf(base, materials[i].name) = M - 1
          /\ \A i \in Considered(excl) :
               MatchesNumbered(base, materials[i].name)
               => NumberOf(base, materials[i].name) < M
          /\ r.mats = materials

\* a gap in the numbers: 'base 3' handed out while no 'base 1' is left
C8_Witness ==
  /\ last.outcome = "created"
  /\ last.renamed = 0
  /\ last.ret = Numbered(last.base, 3)
  /\ \E i \in DOMAIN materials : MatchesBare(Numbered(last.base, 2), materials[i].name)
  /\ \A i \in DOMAIN materials : ~MatchesBare(Numbered(last.base, 1), materials[i].name)

\* C9: the allocator rewrites the display name of a material at most once
\* in the item's lifetime and never changes a mat_partcode.
C9_RenamedAtMostOnce ==
  [][ /\ \A j \in DOMAIN materials' : materials'[j].renames <= 1
      /\ \A i \in DOMAIN materials, j \in DOMAIN materials' :
           materials[i].id = materials'[j].id => materials[i].code = materials'[j].code
    ]_vars

\* C10: once the allocator has renamed an item for a base, the scope never
\* holds the bare base together with 'base N', N >= 1.
C10_BareNeverWithNumbered ==
  \A b \in renamedBases :
    ~ ( /\ \E i \in DOMAIN materials : MatchesBare(b, materials[i].name)
        /\ \E j \in DOMAIN materials :
             /\ MatchesNumbered(b, materials[j].name)
             /\ NumberOf(b, materials[j].name) >= 1 )

\* the rows of the scope that do not carry the part code
WithoutCode(mats, code) == SelectSeq(mats, LAMBDA m : m.code # code)

\* the rows of the scope that carry the part code
OfCode(mats, code) == SelectSeq(mats, LAMBDA m : m.code = code)

\* C11: with exclude_partcode given, the allocator returns the name it returns
\* for the scope without the rows of that part code and renames the row it
\* renames there: those rows are no match for the zero-match test, their
\* numbers are not part of the maximum and none of them is renamed.
C11_ExcludedIgnored ==
  \A base \in CallBases, excl \in PartCodes :
    LET r  == AllocateMaterialName(materials, base, excl)
        r0 == AllocateMaterialName(WithoutCode(materials, excl), base, <<>>)
    IN  /\ r.name = r0.name
        /\ r.renamed = r0.renamed
        /\ WithoutCode(r.mats, excl) = r0.mats
        /\ OfCode(r.mats, excl) = OfCode(materials, excl)

\* a re-add of the part code that holds the largest number of its base: the
\* returned number is one more than the largest of the other rows
C11_Witness ==
  /\ last.outcome = "conflict"
  /\ \E i \in DOMAIN materials :
       /\ materials[i].code = last.code
       /\ MatchesNumbered(last.base, materials[i].name)
       /\ last.ret = Numbered(last.base, NumberOf(last.base, materials[i].name))
       /\ \A j \in DOMAIN materials :
            (j # i /\ MatchesNumbered(last.base, materials[j].name)) =>
              NumberOf(last.base, materials[j].name) < NumberOf(last.base, materials[i].name)

(***************************************************************************)
(* Master names with characters that are operators of a regular           *)
(* expression.                                                             *)
(***************************************************************************)
LiteralNames == {<<"A", ".", "(">>, <<"A", "X", "(">>}

\* the add and delete requests of the API with these master names
NextLiteral ==
  \/ \E code \in PartCodes, row \in LiteralNames : ApiCreateMaterial(code, row, FALSE)
  \/ \E code \in PartCodes : ApiDeleteMaterial(code)

SpecLiteral == Init /\ [][NextLiteral]_vars

\* the name is the base, or the base, one blank and decimal digits, each
\* character compared for itself, case ignored
LiteralVariant(base, n) ==
  \/ Lower(n) = Lower(base)
  \/ /\ Len(n) >= Len(base) + 2
     /\ Lower(SubSeq(n, 1, Len(base))) = Lower(base)
     /\ n[Len(base) + 1] = " "
     /\ \A i \in (Len(base) + 2)..Len(n) : IsDigit(n[i])

\* C12: a row counts as a match exactly when its name is the base or the base,
\* one blank and a decimal number, character for character with case ignored;
\* the allocator answers for every base, a row it changes carried the bare
\* base, and with no such row besides the excluded one it returns the base
\* and changes nothing.
C12_BaseIsLiteral ==
  \A base \in LiteralNames, excl \in Excludes :
    LET r == AllocateMaterialName(materials, base, excl)
    IN  /\ \A i \in DOMAIN materials :
             IRegexMatch(base, materials[i].name) <=> LiteralVariant(base, materials[i].name)
        /\ r.name \in {base} \cup { Numbered(base, n) : n \in 2..(MaxId + 1) }
        /\ \A i \in DOMAIN materials :
             r.mats[i] # materials[i] => Lower(materials[i].name) = Lower(base)
        /\ (\A i \in Considered(excl) : ~LiteralVariant(base, materials[i].name)) =>
             (r.name = base /\ r.mats = materials)

\* 'A.(' handed out as it is while the scope holds 'AX('
C12_Witness ==
  /\ last.outcome = "created"
  /\ last.base = <<"A", ".", "(">>
  /\ last.ret = <<"A", ".", "(">>
  /\ \E i \in DOMAIN materials : materials[i].name = <<"A", "X", "(">>

(***************************************************************************)
(* Master names that are empty, None or blank.                             *)
(***************************************************************************)
BlankNames == {None, <<>>, <<" ">>, <<" ", " ">>}

\* the add and delete requests with these master names
NextUnknown ==
  \/ \E code \in PartCodes, row \in BlankNames : ApiCreateMaterial(code, row, FALSE)
  \/ \E code \in PartCodes, row \in BlankNames : AddMaterialToTep(code, row, FALSE)
  \/ \E code \in PartCodes : ApiDeleteMaterial(code)

SpecUnknown == Init /\ [][NextUnknown]_vars

\* C13: for an empty, None or blank base name the allocator gives, in every
\* scope, the result it gives for the base 'UNKNOWN', and the adds into the
\* empty scope are named 'UNKNOWN', then 'UNKNOWN 1', 'UNKNOWN 2', 'UNKNOWN 3'.
C13_UnknownFallback ==
  /\ \A b \in BlankNames, excl \in Excludes :
       AllocateMaterialName(materials, b, excl) =
         AllocateMaterialName(materials, UNKNOWN, excl)
  /\ run.ok =>
       /\ run.k = 1 => materials[1].name = UNKNOWN
       /\ run.k >= 2 => \A i \in 1..run.k : materials[i].name = Numbered(UNKNOWN, i)

C13_Witness ==
  /\ run.ok /\ run.k = 3
  /\ last.outcome = "created"
  /\ last.renamed = 0
  /\ last.ret = Numbered(UNKNOWN, 3)
  /\ materials[1].name = Numbered(UNKNOWN, 1)

(***************************************************************************)
(* One API request at a time, seen by a reader of the scope: the request   *)
(* commits the allocator's transaction.atomic() block, then get_or_create. *)
(***************************************************************************)
NoneInFlight == \A q \in Requests : reqs[q].pc = "idle"

\* create_material_by_tep_code up to the end of "with transaction.atomic()",
\* no other request running
SoloApiAllocate(code, row) ==
  /\ NoneInFlight
  /\ nextId <= MaxId
  /\ \E r \in {AllocateMaterialName(materials, row, code)} :
       /\ materials' = r.mats
       /\ renamedBases' = BasesAfter(r, row)
       /\ reqs' = [reqs EXCEPT ![1] = [pc |-> "allocated", code |-> code,
                                        base |-> AllocBase(row), name |-> r.name]]
  /\ run' = NoRun
  /\ UNCHANGED <<nextId, last, parts, forecast, users>>

\* delete_material_by_tep_and_partcode, no other request running
SoloApiDelete(code) == NoneInFlight /\ ApiDeleteMaterial(code)

NextReader ==
  \/ \E code \in PartCodes, row \in BaseNames : SoloApiAllocate(code, row)
  \/ \E q \in Requests : ApiGetOrCreate(q)
  \/ \E code \in PartCodes : SoloApiDelete(code)

SpecReader == Init /\ [][NextReader]_vars

\* C14: every committed state of the scope, between the two transactions of
\* a request as well as before and after it, has pairwise distinct names
\* (case-insensitive).
C14_ReaderSeesDistinctNames ==
  \A i, j \in DOMAIN materials :
    i < j => Lower(materials[i].name) # Lower(materials[j].name)

(***************************************************************************)
(* Adds through the API, the dashboard forms and the CSV import, one       *)
(* after another.                                                          *)
(***************************************************************************)
NextImport ==
  \/ \E code \in PartCodes, row \in MasterRows : ApiCreateMaterial(code, row, FALSE)
  \/ \E code \in PartCodes, row \in MasterRows :
       AddCustomerFull(TepPartCode, TepPartName, code, row, FALSE)
  \/ \E code \in PartCodes, row \in MasterRows : AddMaterialToTep(code, row, FALSE)
  \/ \E code \in PartCodes, row \in BaseNames :
       UploadCsvRow(TepPartCode, TepPartName, code, row)

SpecImport == Init /\ [][NextImport]_vars

\* C15: the scope never holds two materials with the same mat_partcode.
C15_NoDuplicatePartcode ==
  \A i, j \in DOMAIN materials : i # j => materials[i].code # materials[j].code

\* an import row and a rejected request for a part code that is in the scope
C15_Witness ==
  /\ last.outcome \in {"updated", "conflict"}
  /\ Len(materials) >= 2
  /\ Cardinality({ i \in DOMAIN materials : materials[i].code = last.code }) = 1

(***************************************************************************)
(* The parts of the customer: add_customer_full and the CSV import for     *)
(* part codes of the customer's other TEP codes.                           *)
(***************************************************************************)
OtherPartCodes == {<<"Q">>, <<"R">>, <<"S">>}

\* Partname as typed into the form or the file
PartNameInputs == {<<"T">>, <<"t", " ", " ", "1">>}

NextParts ==
  \/ \E pc \in OtherPartCodes, pn \in PartNameInputs :
       AddCustomerFull(pc, pn, <<"X">>, <<"A">>, FALSE)
  \/ \E pc \in OtherPartCodes, pn \in PartNameInputs :
       UploadCsvRow(pc, pn, <<"X">>, <<"A">>)

SpecParts == Init /\ [][NextParts]_vars

\* the Partname as compared: whitespace-normalized, case ignored
PartKey(p) == Lower(NormalizeSpace(p.name))

\* C16: no two entries of customer.parts have the same Partname under
\* case-insensitive, whitespace-normalized comparison.
C16_UniquePartnames ==
  \A i, j \in DOMAIN parts : i < j => PartKey(parts[i]) # PartKey(parts[j])

\* the part codes and the candidate names of a call
CallPartCodes == OtherPartCodes \cup {TepPartCode}
CallPartNames == PartNameInputs \cup {<<"t">>, <<"T", " ", "1">>}

\* C17: a second call with the same part code and name returns changed =
\* False and the name of the first call and leaves customer.parts as it is;
\* for a part code that is in the list every call returns changed = False and
\* the stored Partname and leaves customer.parts as it is.
C17_EnsureIdempotent ==
  \A pc \in CallPartCodes, pn \in CallPartNames :
    LET e1 == EnsureCustomerPartEntry(parts, pc, pn)
        e2 == EnsureCustomerPartEntry(e1.parts, pc, pn)
    IN  /\ ~e2.changed /\ e2.used = e1.used /\ e2.parts = e1.parts
        /\ HasPart(parts, pc) =>
             /\ ~e1.changed
             /\ e1.parts = parts
             /\ e1.used = FirstPart(parts, pc).name

\* an entry of the list carries the name, whitespace-normalized, case ignored
PartnameUsed(ps, n) == \E k \in DOMAIN ps : PartKey(ps[k]) = Lower(n)

\* C18: for a part code that is not in the list the call appends one entry as
\* the last element and leaves the earlier entries as they are; its name is the
\* normalized candidate when no entry uses it, and otherwise candidate + ' ' +
\* i for the smallest i >= 1 that gives an unused name.
C18_FirstFreeSuffix ==
  \A pc \in CallPartCodes, pn \in CallPartNames :
    ~HasPart(parts, pc) =>
      LET e    == EnsureCustomerPartEntry(parts, pc, pn)
          cand == NormalizeSpace(pn)
      IN  /\ e.changed
          /\ e.parts = Append(parts, [code |-> pc, name |-> e.used])
          /\ IF ~PartnameUsed(parts, cand) THEN e.used = cand
             ELSE \E i \in 1..(Len(parts) + 1) :
                    /\ e.used = cand \o <<" ">> \o IntToStr(i)
                    /\ ~PartnameUsed(parts, e.used)
                    /\ \A j \in 1..(i - 1) :
                         PartnameUsed(parts, cand \o <<" ">> \o IntToStr(j))

\* 'T 2' stored for the candidate 'T' while 'T' and 't 1' are used
C18_Witness ==
  /\ last.outcome = "part added"
  /\ last.base = <<"T">>
  /\ last.ret = <<"T", " ", "2">>
  /\ parts[Len(parts)] = [code |-> last.code, name |-> last.ret]
  /\ PartnameUsed(SubSeq(parts, 1, Len(parts) - 1), <<"T", " ", "1">>)

(***************************************************************************)
(* _month_index_from_string                                                *)
(***************************************************************************)
\* the length of the date tokens tried character by character
MaxTokenLen == 4

TokenChars == {"0", "1", "3", "-", "/", " ", "x"}

\* the date tokens of the forecast records: every string of TokenChars up to
\* MaxTokenLen, and tokens with month names and years
NamedTokens ==
  {<<"J", "a", "n", "-", "2", "0", "2", "6">>,
   <<"J", "A", "N">>,
   <<"d", "e", "c", "e", "m", "b", "e", "r">>,
   <<"1", "3">>,
   <<"1", "2">>,
   <<"3", "/", "2", "0", "2", "6", "-", "x">>,
   <<"0", "1", "/", "2", "0", "2", "6">>,
   <<" ", "j", "a", "n">>,
   <<"D", "e", "c", "/", "2", "6">>,
   <<"x", "-", "1">>}

Tokens == UNION { [1..k -> TokenChars] : k \in 0..MaxTokenLen } \cup NamedTokens

abbr ==
  <<<<"j", "a", "n">>,
    <<"f", "e", "b">>,
    <<"m", "a", "r">>,
    <<"a", "p", "r">>,
    <<"m", "a", "y">>,
    <<"j", "u", "n">>,
    <<"j", "u", "l">>,
    <<"a", "u", "g">>,
    <<"s", "e", "p">>,
    <<"o", "c", "t">>,
    <<"n", "o", "v">>,
    <<"d", "e", "c">>>>

months ==
  <<<<"j", "a", "n", "u", "a", "r", "y">>,
    <<"f", "e", "b", "r", "u", "a", "r", "y">>,
    <<"m", "a", "r", "c", "h">>,
    <<"a", "p", "r", "i", "l">>,
    <<"m", "a", "y">>,
    <<"j", "u", "n", "e">>,
    <<"j", "u", "l", "y">>,
    <<"a", "u", "g", "u", "s", "t">>,
    <<"s", "e", "p", "t", "e", "m", "b", "e", "r">>,
    <<"o", "c", "t", "o", "b", "e", "r">>,
    <<"n", "o", "v", "e", "m", "b", "e", "r">>,
    <<"d", "e", "c", "e", "m", "b", "e", "r">>>>

Min(S) == CHOOSE x \in S : \A y \in S : x <= y

\* str.startswith
StartsWith(s, prefix) ==
  Len(s) >= Len(prefix) /\ SubSeq(s, 1, Len(prefix)) = prefix

\* sep in s
Contains(s, sep) == \E i \in DOMAIN s : s[i] = sep

\* s.split(sep)[0]
SplitHead(s, sep) ==
  IF Contains(s, sep)
  THEN SubSeq(s, 1, Min({ i \in DOMAIN s : s[i] = sep }) - 1)
  ELSE s

\* head = s.split("-")[0] if "-" in s else s.split("/")[0] if "/" in s else s
NumericHead(s) ==
  IF Contains(s, "-") THEN SplitHead(s, "-")
  ELSE IF Contains(s, "/") THEN SplitHead(s, "/")
  ELSE s

\* int(head): blanks around the number and a sign are accepted; the empty set
\* stands for ValueError
IntParse(head) ==
  LET t      == Strip(head)
      signed == t # <<>> /\ t[1] \in {"+", "-"}
      digits == IF signed THEN Tail(t) ELSE t
  IN  IF digits # <<>> /\ \A i \in DOMAIN digits : IsDigit(digits[i])
      THEN {IF signed /\ t[1] = "-" THEN 0 - StrToInt(digits) ELSE StrToInt(digits)}
      ELSE {}

\* the numeric forms: n if 1 <= n <= 12, else None
NumericMonth(s) ==
  { n \in IntParse(NumericHead(s)) : 1 <= n /\ n <= 12 }

\* the value returned for position i of the list, counted from 0
MonthOfPosition_ZeroBased(i) == i - 1

\* return i + 1 for position i of enumerate(), here counted from 1
MonthOfPosition(i) == i

\* _month_index_from_string: the empty set stands for None
MonthIndexFromString(val) ==
  IF val = None \/ val = <<>> THEN {}
  ELSE
    LET s     == Strip(val)
        lower == Lower(s)
        byAbbr == { i \in DOMAIN abbr : StartsWith(lower, abbr[i]) \/ lower = abbr[i] }
        byName == { i \in DOMAIN months :
                      StartsWith(lower, months[i]) \/ lower = months[i] }
    IN  IF s = <<>> THEN {}
        ELSE IF byAbbr # {} THEN {MonthOfPosition(Min(byAbbr))}
        ELSE IF byName # {} THEN {MonthOfPosition(Min(byName))}
        ELSE NumericMonth(s)

\* a forecast record with its date token, the month index not yet looked up
InitMonths ==
  /\ materials = <<>>
  /\ users = FirstUsers
  /\ nextId = 1
  /\ last = NoRequest
  /\ renamedBases = {}
  /\ run = [ok |-> TRUE, base |-> <<>>, k |-> 0]
  /\ reqs = [q \in Requests |-> Idle]
  /\ parts = <<[code |-> TepPartCode, name |-> TepPartName]>>
  /\ forecast \in { [token |-> t, done |-> FALSE, month |-> {}] : t \in Tokens }

\* mi = _month_index_from_string(m.get("date", ""))
ResolveMonth ==
  /\ ~forecast.done
  /\ forecast' = [token |-> forecast.token, done |-> TRUE,
                  month |-> MonthIndexFromString(forecast.token)]
  /\ UNCHANGED <<materials, nextId, last, renamedBases, run, reqs, parts, users>>

NextMonths == ResolveMonth

SpecMonths == InitMonths /\ [][NextMonths]_vars

\* the abbreviations the trimmed, lower-cased token starts with
AbbrHits(token) ==
  { i \in 1..12 : StartsWith(Lower(Strip(token)), abbr[i]) }

\* C19: a token that starts with the i-th abbreviation resolves to i; any
\* other token resolves by the numeric fallback or not at all; the result is
\* None or an integer of 1..12; 'Jan-2026' gives 1, 'december' 12, '13' and
\* the empty token None.
C19_RulesInOrder ==
  forecast.done =>
    /\ forecast.month \subseteq 1..12
    /\ Cardinality(forecast.month) <= 1
    /\ \A i \in AbbrHits(forecast.token) : forecast.month = {i}
    /\ AbbrHits(forecast.token) = {} =>
         forecast.month = NumericMonth(Strip(forecast.token))
    /\ forecast.token = <<"J", "a", "n", "-", "2", "0", "2", "6">> => forecast.month = {1}
    /\ forecast.token = <<"d", "e", "c", "e", "m", "b", "e", "r">> => forecast.month = {12}
    /\ forecast.token = <<"1", "3">> => forecast.month = {}
    /\ forecast.token = <<>> => forecast.month = {}

C19_Witness ==
  /\ forecast.done
  /\ forecast.token = <<"J", "a", "n", "-", "2", "0", "2", "6">>
  /\ forecast.month = {1}

\* the token up to its first '-' or '/', whichever comes first; the whole
\* token when it has neither
LeftSegment(s) ==
  IF \E i \in DOMAIN s : s[i] \in {"-", "/"}
  THEN SubSeq(s, 1, Min({ i \in DOMAIN s : s[i] \in {"-", "/"} }) - 1)
  ELSE s

\* C20: a token that starts with no month abbreviation resolves to the
\* integer its left segment parses to when that lies in 1..12, and to None
\* otherwise, the left segment being the token up to its first '-' or '/'.
C20_SplitAtFirstSeparator ==
  (forecast.done /\ AbbrHits(forecast.token) = {}) =>
    forecast.month =
      { n \in IntParse(LeftSegment(Strip(forecast.token))) : 1 <= n /\ n <= 12 }

(***************************************************************************)
(* Range totals and range label of the forecasts of a customer:            *)
(* GET /forecasts/by-customer/{customer_name} and the forecast tab of the  *)
(* dashboard.  Prices and quantities are whole numbers, so float() and the *)
(* float sums are exact.                                                   *)
(***************************************************************************)
\* the length of monthly_forecasts of a forecast
MaxRecords == 3

\* the entries of monthly_forecasts: date, unit_price, quantity
MonthlyRecords ==
  { [date |-> <<"J", "a", "n", "-", "2", "0", "2", "6">>, unit_price |-> 10, quantity |-> 5],
    [date |-> <<"F", "e", "b", "-", "2", "0", "2", "6">>, unit_price |-> 20, quantity |-> 2],
    [date |-> <<"M", "a", "r", "-", "2", "0", "2", "6">>, unit_price |-> 5, quantity |-> 100],
    [date |-> <<"?", "?", "?">>, unit_price |-> 7, quantity |-> 3],
    [date |-> <<" ", "2">>, unit_price |-> 1, quantity |-> 1] }

MonthlySeqs(n) == UNION { [1..k -> MonthlyRecords] : k \in 0..n }

\* the forecasts of the customer, each given by its monthly_forecasts: one
\* forecast with up to MaxRecords entries, or two forecasts with one entry
ForecastLists ==
  {<<>>} \cup { <<f>> : f \in MonthlySeqs(MaxRecords) }
         \cup { <<f, g>> : f, g \in [1..1 -> MonthlyRecords] }

\* the values of the parameters from_month and to_month
MonthInputs ==
  {<<>>, <<" ">>, <<"x">>, <<"2">>, <<"J", "a", "n">>, <<"M", "a", "r", "c", "h">>}

\* month_names of get_forecasts_by_customer, month_names_full of the forecast tab
month_names ==
  <<<<"J", "A", "N", "U", "A", "R", "Y">>,
    <<"F", "E", "B", "R", "U", "A", "R", "Y">>,
    <<"M", "A", "R", "C", "H">>,
    <<"A", "P", "R", "I", "L">>,
    <<"M", "A", "Y">>,
    <<"J", "U", "N", "E">>,
    <<"J", "U", "L", "Y">>,
    <<"A", "U", "G", "U", "S", "T">>,
    <<"S", "E", "P", "T", "E", "M", "B", "E", "R">>,
    <<"O", "C", "T", "O", "B", "E", "R">>,
    <<"N", "O", "V", "E", "M", "B", "E", "R">>,
    <<"D", "E", "C", "E", "M", "B", "E", "R">>>>

\* the window without the swap of its ends
OrderWindow_NoSwap(from_idx, to_idx) == <<from_idx, to_idx>>

\* if from_idx > to_idx: from_idx, to_idx = to_idx, from_idx
OrderWindow(from_idx, to_idx) ==
  IF from_idx > to_idx THEN <<to_idx, from_idx>> ELSE <<from_idx, to_idx>>

\* f"{month_names[from_idx - 1]} to {month_names[to_idx - 1]}"
RangeLabel(from_idx, to_idx) ==
  month_names[from_idx] \o <<" ", "t", "o", " ">> \o month_names[to_idx]

\* the window test with its lower end left out
InWindow_Exclusive(m, from_idx, to_idx) ==
  \E mi \in MonthIndexFromString(m.date) : from_idx < mi /\ mi <= to_idx

\* mi = _month_index_from_string(m.get("date", "")); mi is not None and
\* from_idx <= mi <= to_idx
InWindow(m, from_idx, to_idx) ==
  \E mi \in MonthIndexFromString(m.date) : from_idx <= mi /\ mi <= to_idx

\* views._range_totals: (total_qty, total_amt) of the rows in the window
RECURSIVE RangeTotals(_, _, _)
RangeTotals(monthly_rows, from_idx, to_idx) ==
  IF monthly_rows = <<>> THEN [qty |-> 0, amt |-> 0]
  ELSE
    LET n    == Len(monthly_rows)
        m    == monthly_rows[n]
        done == RangeTotals(SubSeq(monthly_rows, 1, n - 1), from_idx, to_idx)
    IN  IF InWindow(m, from_idx, to_idx)
        THEN [qty |-> done.qty + m.quantity,
              amt |-> done.amt + m.unit_price * m.quantity]
        ELSE done

\* the loop of get_forecasts_by_customer: total_range of one forecast
RECURSIVE TotalRange(_, _, _)
TotalRange(monthly_rows, from_idx, to_idx) ==
  IF monthly_rows = <<>> THEN 0
  ELSE
    LET n    == Len(monthly_rows)
        m    == monthly_rows[n]
        done == TotalRange(SubSeq(monthly_rows, 1, n - 1), from_idx, to_idx)
    IN  IF InWindow(m, from_idx, to_idx)
        THEN done + m.unit_price * m.quantity
        ELSE done

\* _month_index_from_string(x) if x else None
EndpointIndex(month) == IF month # <<>> THEN MonthIndexFromString(month) ELSE {}

\* the one element of a set that holds an int
TheIndex(S) == CHOOSE n \in S : TRUE

\* the response of get_forecasts_by_customer for a customer that exists: the
\* status, selected_months and, per forecast, total_amount_selected_months;
\* the empty set stands for a key that is absent
GetForecastsByCustomer(forecasts, from_month, to_month) ==
  LET from_idx == EndpointIndex(from_month)
      to_idx   == EndpointIndex(to_month)
  IN  IF (from_month # <<>> \/ to_month # <<>>) /\ (from_idx = {} \/ to_idx = {})
      THEN [status |-> 400, label |-> {}, selected |-> <<>>, total |-> {}]
      ELSE IF from_idx # {} /\ to_idx # {}
      THEN LET w == OrderWindow(TheIndex(from_idx), TheIndex(to_idx))
           IN  [status   |-> 200,
                label    |-> {RangeLabel(w[1], w[2])},
                selected |-> [i \in DOMAIN forecasts |->
                                {[amt |-> TotalRange(forecasts[i], w[1], w[2])]}],
                total    |-> {}]
      ELSE [status   |-> 200,
            label    |-> {},
            selected |-> [i \in DOMAIN forecasts |-> {}],
            total    |-> {}]

\* total_qty_all, total_amt_all: the sums over forecasts_list
RECURSIVE TotalsOfAll(_)
TotalsOfAll(selected) ==
  IF selected = <<>> THEN [qty |-> 0, amt |-> 0]
  ELSE
    LET n    == Len(selected)
        done == TotalsOfAll(SubSeq(selected, 1, n - 1))
        f    == TheIndex(selected[n])
    IN  [qty |-> done.qty + f.qty, amt |-> done.amt + f.amt]

\* the forecast tab of admin_dashboard: forecast_selected_range_label,
\* selected_range_qty and selected_range_amount of every forecast, and
\* forecast_selected_total_qty and forecast_selected_total_amount; the empty
\* set stands for None
DashboardForecastTab(forecasts, from_month, to_month) ==
  LET from_idx == EndpointIndex(Strip(from_month))
      to_idx   == EndpointIndex(Strip(to_month))
  IN  IF from_idx # {} /\ to_idx # {}
      THEN LET w   == OrderWindow(TheIndex(from_idx), TheIndex(to_idx))
               sel == [i \in DOMAIN forecasts |->
                         {RangeTotals(forecasts[i], w[1], w[2])}]
           IN  [status   |-> 200,
                label    |-> {RangeLabel(w[1], w[2])},
                selected |-> sel,
                total    |-> {TotalsOfAll(sel)}]
      ELSE [status   |-> 200,
            label    |-> {},
            selected |-> [i \in DOMAIN forecasts |-> {}],
            total    |-> {}]

\* a request with from_month and to_month for a customer and its forecasts
InitRange ==
  /\ materials = <<>>
  /\ users = FirstUsers
  /\ nextId = 1
  /\ last = NoRequest
  /\ renamedBases = {}
  /\ run = [ok |-> TRUE, base |-> <<>>, k |-> 0]
  /\ reqs = [q \in Requests |-> Idle]
  /\ parts = <<[code |-> TepPartCode, name |-> TepPartName]>>
  /\ forecast \in { [site |-> "request", forecasts |-> fs, from_month |-> f,
                     to_month |-> t, result |-> {}] :
                    fs \in ForecastLists, f \in MonthInputs, t \in MonthInputs }

\* GET /forecasts/by-customer/{customer_name}?from_month=..&to_month=..
ApiForecastsByCustomer ==
  /\ forecast.site = "request"
  /\ forecast' = [forecast EXCEPT
                    !.site = "api",
                    !.result = {GetForecastsByCustomer(forecast.forecasts,
                                  forecast.from_month, forecast.to_month)}]
  /\ UNCHANGED <<materials, nextId, last, renamedBases, run, reqs, parts, users>>

\* GET of the dashboard with tab=forecast, from_month and to_month
DashboardForecasts ==
  /\ forecast.site = "request"
  /\ forecast' = [forecast EXCEPT
                    !.site = "dashboard",
                    !.result = {DashboardForecastTab(forecast.forecasts,
                                  forecast.from_month, forecast.to_month)}]
  /\ UNCHANGED <<materials, nextId, last, renamedBases, run, reqs, parts, users>>

NextRange == ApiForecastsByCustomer \/ DashboardForecasts

SpecRange == InitRange /\ [][NextRange]_vars

(***************************************************************************)
(* Properties of the range totals.                                         *)
(***************************************************************************)
\* the request has been answered by one of the two call sites
Answered == forecast.site \in {"api", "dashboard"}

\* the call site's function of the request
AnswerOf(site, forecasts, from_month, to_month) ==
  IF site = "api" THEN GetForecastsByCustomer(forecasts, from_month, to_month)
  ELSE DashboardForecastTab(forecasts, from_month, to_month)

\* from_month or to_month is given, and one of the two resolves to no month
HalfParsed ==
  /\ forecast.from_month # <<>> \/ forecast.to_month # <<>>
  /\ \/ MonthIndexFromString(forecast.from_month) = {}
     \/ MonthIndexFromString(forecast.to_month) = {}

\* both from_month and to_month resolve to a month
BothParsed ==
  /\ MonthIndexFromString(forecast.from_month) # {}
  /\ MonthIndexFromString(forecast.to_month) # {}

FromIdx == TheIndex(MonthIndexFromString(forecast.from_month))
ToIdx == TheIndex(MonthIndexFromString(forecast.to_month))

\* C21: at both call sites a request with a from/to month of which one end
\* does not resolve is rejected as an input error (status 400), with no range
\* label and no range total in the answer.
C21_HalfWindowRejected ==
  (Answered /\ HalfParsed) =>
    \A r \in forecast.result :
      /\ r.status = 400
      /\ r.label = {}
      /\ r.total = {}
      /\ \A i \in DOMAIN r.selected : r.selected[i] = {}

\* C22: with both ends resolved, the answer for (from, to) is the answer for
\* (to, from), and its label is '<NAME(smaller)> to <NAME(larger)>' in
\* upper-case full month names.
C22_WindowUnordered ==
  (Answered /\ BothParsed) =>
    \A r \in forecast.result :
      /\ r = AnswerOf(forecast.site, forecast.forecasts,
                      forecast.to_month, forecast.from_month)
      /\ r.label = { month_names[Min({FromIdx, ToIdx})]
                       \o <<" ", "t", "o", " ">>
                       \o month_names[Max({FromIdx, ToIdx})] }

\* from March to January over records of January and March
C22_Witness ==
  /\ forecast.site = "api"
  /\ forecast.from_month = <<"M", "a", "r", "c", "h">>
  /\ forecast.to_month = <<"J", "a", "n">>
  /\ \A r \in forecast.result :
       /\ r.label = {<<"J", "A", "N", "U", "A", "R", "Y">> \o <<" ", "t", "o", " ">> \o <<"M", "A", "R", "C", "H">>}
       /\ r.selected = <<{[amt |-> 550]}>>

\* the records of monthly_rows whose own date resolves to a month of lo..hi
SpanRows(monthly_rows, lo, hi) ==
  SelectSeq(monthly_rows,
            LAMBDA m : \E mi \in MonthIndexFromString(m.date) : mi \in lo..hi)

RECURSIVE SumQuantity(_)
SumQuantity(rows) ==
  IF rows = <<>> THEN 0 ELSE Head(rows).quantity + SumQuantity(Tail(rows))

RECURSIVE SumAmount(_)
SumAmount(rows) ==
  IF rows = <<>> THEN 0
  ELSE Head(rows).unit_price * Head(rows).quantity + SumAmount(Tail(rows))

\* the records of the example: Jan(10,5), Feb(20,2), Mar(5,100)
C23_Example ==
  <<[date |-> <<"J", "a", "n", "-", "2", "0", "2", "6">>, unit_price |-> 10, quantity |-> 5],
    [date |-> <<"F", "e", "b", "-", "2", "0", "2", "6">>, unit_price |-> 20, quantity |-> 2],
    [date |-> <<"M", "a", "r", "-", "2", "0", "2", "6">>, unit_price |-> 5, quantity |-> 100]>>

\* C23: for a window from_idx <= to_idx the totals of a forecast are the sum
\* of quantity and the sum of unit_price * quantity over exactly the records
\* whose date resolves into the window, both ends included; a record whose
\* date does not resolve adds nothing and stops nothing.  The API answers
\* with the amount only.  Jan(10,5), Feb(20,2), Mar(5,100) over Jan..Feb give
\* quantity 7 and amount 90.
C23_TotalsOverWindow ==
  (Answered /\ BothParsed /\ FromIdx <= ToIdx) =>
    \A r \in forecast.result :
      /\ r.status = 200
      /\ \A i \in DOMAIN forecast.forecasts :
           LET rows == SpanRows(forecast.forecasts[i], FromIdx, ToIdx)
           IN  r.selected[i] =
                 IF forecast.site = "api"
                 THEN {[amt |-> SumAmount(rows)]}
                 ELSE {[qty |-> SumQuantity(rows), amt |-> SumAmount(rows)]}
      /\ (/\ forecast.site = "dashboard"
          /\ forecast.forecasts = <<C23_Example>>
          /\ FromIdx = 1 /\ ToIdx = 2)
         => r.selected = <<{[qty |-> 7, amt |-> 90]}>>

\* the example answered by the dashboard
C23_Witness ==
  /\ forecast.site = "dashboard"
  /\ forecast.from_month = <<"J", "a", "n">>
  /\ forecast.to_month = <<"2">>
  /\ forecast.forecasts = <<C23_Example>>
  /\ \A r \in forecast.result : r.total = {[qty |-> 7, amt |-> 90]}

(***************************************************************************)
(* The month label of a record set: views._months_label_from_rows,         *)
(* Forecast.months_display and ForecastAdmin.months_display.               *)
(***************************************************************************)
\* the values of the key date of the records; a row of the model is the date
\* of a record
LabelDates ==
  {None, <<>>, <<" ", "x", " ">>, <<"1", "3">>, <<"2">>, <<"J", "A", "N">>, <<"J", "a", "n", "-", "2", "0", "2", "6">>, <<"F", "e", "b", "-", "2", "0", "2", "6">>}

\* the record sets the label is made for
LabelRows == UNION { [1..k -> LabelDates] : k \in 0..MaxRecords }

\* the full month names of the three label generators
month_names_full ==
  <<<<"J", "a", "n", "u", "a", "r", "y">>,
    <<"F", "e", "b", "r", "u", "a", "r", "y">>,
    <<"M", "a", "r", "c", "h">>,
    <<"A", "p", "r", "i", "l">>,
    <<"M", "a", "y">>,
    <<"J", "u", "n", "e">>,
    <<"J", "u", "l", "y">>,
    <<"A", "u", "g", "u", "s", "t">>,
    <<"S", "e", "p", "t", "e", "m", "b", "e", "r">>,
    <<"O", "c", "t", "o", "b", "e", "r">>,
    <<"N", "o", "v", "e", "m", "b", "e", "r">>,
    <<"D", "e", "c", "e", "m", "b", "e", "r">>>>

\* str(val)
Str(val) == IF val = None THEN <<"N", "o", "n", "e">> ELSE val

\* the characters of the placeholder literals, named by their code points:
\* the em dash in models.py and admin.py, and the three characters the
\* literal of views.py holds
EmDash == <<"U+2014">>

ViewsPlaceholder == <<"U+00E2", "U+20AC", "U+201D">>

\* if name and name not in seen: seen.add(name); names.append(name)
RECURSIVE FirstSeen(_)
FirstSeen(names) ==
  IF names = <<>> THEN <<>>
  ELSE
    LET n    == Len(names)
        done == FirstSeen(SubSeq(names, 1, n - 1))
    IN  IF names[n] # <<>> /\ \A i \in DOMAIN done : done[i] # names[n]
        THEN Append(done, names[n])
        ELSE done

\* ", ".join(names)
RECURSIVE Join(_)
Join(names) ==
  IF names = <<>> THEN <<>>
  ELSE IF Len(names) = 1 THEN names[1]
  ELSE names[1] \o <<",", " ">> \o Join(Tail(names))

\* views._months_label_from_rows: the name of one row
ViewsMonthName(date) ==
  LET idx == MonthIndexFromString(date)
  IN  IF idx # {} /\ \A i \in idx : 1 <= i /\ i <= 12
      THEN month_names_full[TheIndex(idx)]
      ELSE Strip(Str(date))

\* views._months_label_from_rows
MonthsLabelFromRows(monthly_rows) ==
  LET names == FirstSeen([i \in DOMAIN monthly_rows |-> ViewsMonthName(monthly_rows[i])])
  IN  IF names # <<>> THEN Join(names) ELSE ViewsPlaceholder

\* the abbreviation loop and the numeric forms shared by models.py and
\* admin.py: the full month name, or the stripped token d
NameOfToken(d) ==
  LET s_lower == Lower(d)
      byAbbr  == { i \in DOMAIN abbr : StartsWith(s_lower, abbr[i]) \/ s_lower = abbr[i] }
      n       == IntParse(NumericHead(d))
  IN  IF byAbbr # {} THEN month_names_full[Min(byAbbr)]
      ELSE IF n # {} /\ 1 <= TheIndex(n) /\ TheIndex(n) <= 12
      THEN month_names_full[TheIndex(n)]
      ELSE d

\* Forecast.months_display: the name of one entry, empty for a skipped one
ModelMonthName(date) ==
  IF Strip(Str(date)) = <<>> THEN <<>> ELSE NameOfToken(Strip(Str(date)))

\* Forecast.months_display
ForecastMonthsDisplay(items) ==
  LET names == FirstSeen([i \in DOMAIN items |-> ModelMonthName(items[i])])
  IN  IF names # <<>> THEN Join(names) ELSE EmDash

\* admin._date_to_month_name
DateToMonthName(val) ==
  IF val = None \/ val = <<>> THEN <<>> ELSE NameOfToken(Strip(Str(val)))

\* ForecastAdmin.months_display
AdminMonthsDisplay(items) ==
  LET names == FirstSeen([i \in DOMAIN items |-> DateToMonthName(items[i])])
  IN  IF names # <<>> THEN Join(names) ELSE EmDash

\* a record set whose label is asked for
InitLabels ==
  /\ materials = <<>>
  /\ users = FirstUsers
  /\ nextId = 1
  /\ last = NoRequest
  /\ renamedBases = {}
  /\ run = [ok |-> TRUE, base |-> <<>>, k |-> 0]
  /\ reqs = [q \in Requests |-> Idle]
  /\ parts = <<[code |-> TepPartCode, name |-> TepPartName]>>
  /\ forecast \in { [site |-> "request", rows |-> rows, label |-> <<>>] :
                    rows \in LabelRows }

\* "months" of the previous forecasts on the dashboard
ViewsLabel ==
  /\ forecast.site = "request"
  /\ forecast' = [forecast EXCEPT !.site = "views",
                                  !.label = MonthsLabelFromRows(forecast.rows)]
  /\ UNCHANGED <<materials, nextId, last, renamedBases, run, reqs, parts, users>>

\* forecast.months_display
ModelLabel ==
  /\ forecast.site = "request"
  /\ forecast' = [forecast EXCEPT !.site = "models",
                                  !.label = ForecastMonthsDisplay(forecast.rows)]
  /\ UNCHANGED <<materials, nextId, last, renamedBases, run, reqs, parts, users>>

\* the column months_display of the admin list
AdminLabel ==
  /\ forecast.site = "request"
  /\ forecast' = [forecast EXCEPT !.site = "admin",
                                  !.label = AdminMonthsDisplay(forecast.rows)]
  /\ UNCHANGED <<materials, nextId, last, renamedBases, run, reqs, parts, users>>

NextLabels == ViewsLabel \/ ModelLabel \/ AdminLabel

SpecLabels == InitLabels /\ [][NextLabels]_vars

\* the name a token stands for: its full month name if it resolves, the
\* token as it is otherwise
LabelName(date) ==
  IF MonthIndexFromString(date) # {}
  THEN month_names_full[TheIndex(MonthIndexFromString(date))]
  ELSE Str(date)

\* C24: the label of a record set is the full month name of every token that
\* resolves and the token itself of every other, first occurrences in
\* first-seen order joined with ', ', and the em dash when there is no name;
\* the three generators give this string, so they agree.
C24_OneLabel ==
  forecast.site \in {"views", "models", "admin"} =>
    LET names == FirstSeen([i \in DOMAIN forecast.rows |-> LabelName(forecast.rows[i])])
    IN  forecast.label = IF names # <<>> THEN Join(names) ELSE EmDash

(***************************************************************************)
(* The two copies of the allocation logic.  _allocate_material_name above  *)
(* is the copy of api.py, the customer-parts functions above are the copy  *)
(* of views.py; here are the other two.                                    *)
(***************************************************************************)
\* the base of views.py without the "UNKNOWN" of the empty name
ViewsAllocBase_NoFallback(base_name) == Strip(OrEmpty(base_name))

\* views.py: base = (base_name or "").strip() or "UNKNOWN"
ViewsAllocBase(base_name) ==
  LET b == Strip(OrEmpty(base_name)) IN IF b # <<>> THEN b ELSE UNKNOWN

\* views._allocate_material_name
ViewsAllocateMaterialName(mats, base_name, exclude_partcode) ==
  LET base    == ViewsAllocBase(base_name)
      excl    == Strip(OrEmpty(exclude_partcode))
      qs      == SelectSeq(mats, LAMBDA m : IRegexMatch(base, m.name)
                                            /\ (excl = <<>> \/ m.code # excl))
      numbers == { StrToInt(NumberGroup(base, Strip(qs[i].name))) :
                     i \in { j \in DOMAIN qs : MatchesNumbered(base, Strip(qs[j].name)) } }
      eb      == SelectSeq(mats, LAMBDA m : Lower(m.name) = Lower(base)
                                            /\ (excl = <<>> \/ m.code # excl))
  IN  IF qs = <<>>
      THEN [name |-> base, mats |-> mats, renamed |-> 0]
      ELSE IF numbers = {}
      THEN IF eb # <<>>
           THEN [name    |-> Numbered(base, 2),
                 mats    |-> SaveName(mats, Head(eb).id, Numbered(base, 1)),
                 renamed |-> Head(eb).id]
           ELSE [name |-> Numbered(base, 2), mats |-> mats, renamed |-> 0]
      ELSE [name |-> Numbered(base, Max(numbers) + 1), mats |-> mats, renamed |-> 0]

\* api._unique_partname_for_customer
ApiUniquePartnameForCustomer(ps, base_name, part_code) ==
  LET base == NormalizeSpace(base_name)
      code == NormalizeSpace(part_code)
      same == { i \in DOMAIN ps : NormalizeSpace(ps[i].code) = code }
      existing_names ==
        { Lower(NormalizeSpace(ps[i].name)) :
            i \in { j \in DOMAIN ps : NormalizeSpace(ps[j].name) # <<>> } }
  IN  IF same # {}
      THEN IF NormalizeSpace(ps[Min(same)].name) # <<>>
           THEN NormalizeSpace(ps[Min(same)].name)
           ELSE base
      ELSE IF Lower(base) \notin existing_names THEN base
      ELSE FirstFreeName(base, existing_names, 1)

\* api._ensure_customer_part_entry: (changed, used_partname) and customer.parts
ApiEnsureCustomerPartEntry(ps, part_code, part_name) ==
  LET code == NormalizeSpace(part_code)
      name == IF NormalizeSpace(part_name) # <<>> THEN NormalizeSpace(part_name)
              ELSE code
      same == { i \in DOMAIN ps : NormalizeSpace(ps[i].code) = code }
      unique_name == ApiUniquePartnameForCustomer(ps, name, code)
  IN  IF same # {}
      THEN [changed |-> FALSE,
            used |-> IF NormalizeSpace(ps[Min(same)].name) # <<>>
                     THEN NormalizeSpace(ps[Min(same)].name)
                     ELSE name,
            parts |-> ps]
      ELSE [changed |-> TRUE, used |-> unique_name,
            parts |-> Append(ps, [code |-> code, name |-> unique_name])]

\* mat_partname of the rows of a scope: names are edited freely through
\* PUT /tep-codes/{tep_code}/materials/{mat_partcode} and the admin site
ScopeNames ==
  {<<"A">>, <<"A", " ", "1">>, <<"a", " ", "2">>, UNKNOWN}

ScopeCodes == {<<"X">>, <<"Y">>}

\* the scopes with up to two materials
ScopeStates ==
  {<<>>}
  \cup { <<[id |-> 1, code |-> c, name |-> n, renames |-> 0]>> :
           c \in ScopeCodes, n \in ScopeNames }
  \cup { <<[id |-> 1, code |-> cd[1], name |-> n, renames |-> 0],
           [id |-> 2, code |-> cd[2], name |-> k, renames |-> 0]>> :
           cd \in { x \in ScopeCodes \X ScopeCodes : x[1] # x[2] },
           n \in ScopeNames, k \in ScopeNames }

\* Partcode and Partname of the entries of customer.parts, which the customer
\* API and the CSV import store as given
PartsEntries ==
  { [code |-> c, name |-> n] :
      c \in {<<"P">>, <<"Q">>}, n \in {<<"T">>, <<"t", " ", " ", "1">>, <<>>} }

PartsLists == UNION { [1..k -> PartsEntries] : k \in 0..2 }

\* the arguments of the calls
CopyBases == BaseNames \cup {None, <<" ">>}
CopyExcludes == {<<>>} \cup ScopeCodes
CopyPartCodes == {<<"P">>, <<" ", "Q">>, <<"R">>}
CopyPartNames == {<<"T">>, <<"t", " ", " ", "1">>, None}

\* one call of one copy, on any scope and any parts list
InitCopies ==
  /\ materials \in ScopeStates
  /\ users = FirstUsers
  /\ nextId = Len(materials) + 1
  /\ last = NoRequest
  /\ renamedBases = {}
  /\ run = NoRun
  /\ reqs = [q \in Requests |-> Idle]
  /\ parts \in PartsLists
  /\ forecast = NoForecast

\* the call, its arguments, the state before it and what it returned
CopyCall(copy, fn, a, b, before, result) ==
  [outcome |-> "call", copy |-> copy, fn |-> fn, a |-> a, b |-> b,
   before |-> before, result |-> result]

\* api._allocate_material_name(tep, base_name, exclude_partcode)
ApiAllocateCall(base_name, exclude_partcode) ==
  /\ last = NoRequest
  /\ \E r \in {AllocateMaterialName(materials, base_name, exclude_partcode)} :
       /\ materials' = r.mats
       /\ last' = CopyCall("api", "allocate", base_name, exclude_partcode, materials,
                           [name |-> r.name, renamed |-> r.renamed])
  /\ UNCHANGED <<nextId, renamedBases, run, reqs, parts, forecast, users>>

\* views._allocate_material_name(tep, base_name, exclude_partcode)
ViewsAllocateCall(base_name, exclude_partcode) ==
  /\ last = NoRequest
  /\ \E r \in {ViewsAllocateMaterialName(materials, base_name, exclude_partcode)} :
       /\ materials' = r.mats
       /\ last' = CopyCall("views", "allocate", base_name, exclude_partcode, materials,
                           [name |-> r.name, renamed |-> r.renamed])
  /\ UNCHANGED <<nextId, renamedBases, run, reqs, parts, forecast, users>>

\* api._ensure_customer_part_entry(customer, part_code, part_name)
ApiEnsureCall(part_code, part_name) ==
  /\ last = NoRequest
  /\ \E e \in {ApiEnsureCustomerPartEntry(parts, part_code, part_name)} :
       /\ parts' = e.parts
       /\ last' = CopyCall("api", "ensure", part_code, part_name, parts,
                           [changed |-> e.changed, used |-> e.used])
  /\ UNCHANGED <<materials, nextId, renamedBases, run, reqs, forecast, users>>

\* views._ensure_customer_part_entry(customer, part_code, part_name)
ViewsEnsureCall(part_code, part_name) ==
  /\ last = NoRequest
  /\ \E e \in {EnsureCustomerPartEntry(parts, part_code, part_name)} :
       /\ parts' = e.parts
       /\ last' = CopyCall("views", "ensure", part_code, part_name, parts,
                           [changed |-> e.changed, used |-> e.used])
  /\ UNCHANGED <<materials, nextId, renamedBases, run, reqs, forecast, users>>

NextCopies ==
  \/ \E b \in CopyBases, x \in CopyExcludes : ApiAllocateCall(b, x)
  \/ \E b \in CopyBases, x \in CopyExcludes : ViewsAllocateCall(b, x)
  \/ \E c \in CopyPartCodes, n \in CopyPartNames : ApiEnsureCall(c, n)
  \/ \E c \in CopyPartCodes, n \in CopyPartNames : ViewsEnsureCall(c, n)

SpecCopies == InitCopies /\ [][NextCopies]_vars

\* C27: what a call of one copy returned and left behind is what the other
\* copy returns and leaves for the same state and arguments: the name and
\* the renamed row of _allocate_material_name, the pair (changed, name) and
\* the parts list of _ensure_customer_part_entry.
C27_CopiesAgree ==
  /\ (last.outcome = "call" /\ last.fn = "allocate") =>
       LET o == IF last.copy = "api"
                THEN ViewsAllocateMaterialName(last.before, last.a, last.b)
                ELSE AllocateMaterialName(last.before, last.a, last.b)
       IN  /\ last.result = [name |-> o.name, renamed |-> o.renamed]
           /\ materials = o.mats
  /\ (last.outcome = "call" /\ last.fn = "ensure") =>
       LET o == IF last.copy = "api"
                THEN EnsureCustomerPartEntry(last.before, last.a, last.b)
                ELSE ApiEnsureCustomerPartEntry(last.before, last.a, last.b)
       IN  /\ last.result = [changed |-> o.changed, used |-> o.used]
           /\ parts = o.parts

\* a call of the views copy with no base name that renames the row 'UNKNOWN'
C27_Witness ==
  /\ last.outcome = "call"
  /\ last.copy = "views"
  /\ last.fn = "allocate"
  /\ last.a = None
  /\ last.result.renamed # 0
  /\ \E i \in DOMAIN materials : materials[i].name = Numbered(UNKNOWN, 1)

(***************************************************************************)
(* POST /upload-csv with a whole file.  Every row names the customer, the  *)
(* part code and the TEP code of the scope; name is mat_partname of the    *)
(* master row after the row's update of the catalog.  Of the columns of a  *)
(* material the model keeps dim_qty and loss_percent (whole numbers); total,*)
(* mat_maker and unit are left out.                                        *)
(***************************************************************************)
\* the number of rows of a file
MaxCsvRows == 2

\* the rows of a file: mat_partcode (blank: the row is skipped), the master
\* name, dim_qty and loss_percent as fnum() reads them
CsvRowInputs ==
  { [code |-> c, name |-> <<"A">>, dim_qty |-> d, loss_percent |-> l] :
      c \in {<<"X">>, <<"Y">>}, d \in {0, 2}, l \in {0, 5} }
  \cup {[code |-> <<>>, name |-> <<"A">>, dim_qty |-> 2, loss_percent |-> 5]}

CsvFiles == UNION { [1..k -> CsvRowInputs] : k \in 1..MaxCsvRows }

\* the column written whatever the incoming value
UpdateQty_Always(stored, incoming) == incoming

\* if dim_qty != 0: existing_mat.dim_qty = dim_qty (the same for loss_percent)
UpdateQty(stored, incoming) == IF incoming # 0 THEN incoming ELSE stored

\* existing_mat = Material.objects.filter(tep_code=tep, mat_partcode=...).first()
ExistingMat(mats, code) == Min({ i \in DOMAIN mats : mats[i].code = code })

\* the update path: dim_qty and loss_percent of existing_mat, then save()
CsvUpdate(mats, row) ==
  [i \in DOMAIN mats |->
     IF i = ExistingMat(mats, row.code)
     THEN [mats[i] EXCEPT !.dim_qty = UpdateQty(@, row.dim_qty),
                          !.loss_percent = UpdateQty(@, row.loss_percent)]
     ELSE mats[i]]

\* the create path: the allocator, then Material.objects.create
CsvCreate(mats, id, row) ==
  LET r == AllocateMaterialName(mats, row.name, row.code)
  IN  [mats |-> Append(r.mats, [id |-> id, code |-> row.code, name |-> r.name,
                                renames |-> 0, dim_qty |-> row.dim_qty,
                                loss_percent |-> row.loss_percent]),
       renamed |-> r.renamed]

\* one pass of "for row in reader": st holds the rows of the scope, the next
\* id, the counters and, as history, what every row of the file did
CsvRow(st, row) ==
  IF row.code = <<>>
  THEN [st EXCEPT !.steps = Append(@, [path |-> "skipped", row |-> row,
                                       before |-> st.mats, after |-> st.mats,
                                       allocated |-> FALSE, renamed |-> 0])]
  ELSE IF HasCode(st.mats, row.code)
  THEN [st EXCEPT !.mats = CsvUpdate(st.mats, row),
                  !.updated = @ + 1,
                  !.steps = Append(@, [path |-> "updated", row |-> row,
                                       before |-> st.mats,
                                       after |-> CsvUpdate(st.mats, row),
                                       allocated |-> FALSE, renamed |-> 0])]
  ELSE LET c == CsvCreate(st.mats, st.nextId, row)
       IN  [st EXCEPT !.mats = c.mats,
                      !.nextId = @ + 1,
                      !.inserted = @ + 1,
                      !.steps = Append(@, [path |-> "created", row |-> row,
                                           before |-> st.mats, after |-> c.mats,
                                           allocated |-> TRUE,
                                           renamed |-> c.renamed])]

\* the loop over the first n rows of the file
RECURSIVE CsvRows(_, _, _)
CsvRows(st, file, n) ==
  IF n = 0 THEN st
  ELSE LET prev == CHOOSE x \in {CsvRows(st, file, n - 1)} : TRUE
       IN  CsvRow(prev, file[n])

\* the state of the import before its first row
CsvStart(mats, id) ==
  [mats |-> mats, nextId |-> id, inserted |-> 0, updated |-> 0, steps |-> <<>>]

\* the lower-cased bases the allocator renamed a row for during the import
CsvRenamedBases(steps) ==
  { Lower(AllocBase(steps[i].row.name)) :
      i \in { j \in DOMAIN steps : steps[j].renamed # 0 } }

\* upload_csv, the one request of a behaviour: all rows inside one
\* transaction.atomic(); failAt is the row at
\* which the store raises (0: it never does; a row without mat_partcode is
\* skipped before it reaches the store).  The exception leaves the inner
\* and the outer atomic block, both roll back, and "except Exception" answers
\* with status 500.
UploadCsv(file, failAt) ==
  /\ last = NoRequest
  /\ failAt = 0 \/ (failAt \in DOMAIN file /\ file[failAt].code # <<>>)
  /\ \E done \in {CsvRows(CsvStart(materials, nextId), file, Len(file))} :
    /\ done.nextId <= MaxId + 1
    /\ UNCHANGED <<reqs, parts, forecast, users>>
    /\ run' = NoRun
    /\ IF failAt \in DOMAIN file
       THEN /\ last' = [outcome |-> "csv error", status |-> 500, file |-> file,
                        failAt |-> failAt, before |-> materials,
                        inserted |-> 0, updated |-> 0, steps |-> <<>>]
            /\ UNCHANGED <<materials, nextId, renamedBases>>
       ELSE /\ materials' = done.mats
            /\ nextId' = done.nextId
            /\ renamedBases' = renamedBases \cup CsvRenamedBases(done.steps)
            /\ last' = [outcome |-> "csv uploaded", status |-> 200, file |-> file,
                        failAt |-> 0, before |-> materials,
                        inserted |-> done.inserted, updated |-> done.updated,
                        steps |-> done.steps]

NextCsv == \E file \in CsvFiles, failAt \in 0..MaxCsvRows : UploadCsv(file, failAt)

\* the scopes an earlier import of up to two rows has left
CsvScopes ==
  { CsvRows(CsvStart(<<>>, 1), f, Len(f)).mats :
      f \in UNION { [1..k -> CsvRowInputs] : k \in 0..2 } }

\* one import into a scope filled by an earlier one
InitCsv ==
  /\ materials \in CsvScopes
  /\ users = FirstUsers
  /\ nextId = Len(materials) + 1
  /\ last = NoRequest
  /\ renamedBases = {}
  /\ run = NoRun
  /\ reqs = [q \in Requests |-> Idle]
  /\ parts = <<[code |-> TepPartCode, name |-> TepPartName]>>
  /\ forecast = NoForecast

SpecCsv == InitCsv /\ [][NextCsv]_vars

\* the file without its row k
WithoutRow(file, k) ==
  [i \in 1..(Len(file) - 1) |-> IF i < k THEN file[i] ELSE file[i + 1]]

\* C25: when the store raises at one row of the file, the rows before and
\* after it take effect as if the file did not hold that row, and the
\* request does not end as a failed batch.
C25_RowFailureIsolated ==
  last.outcome = "csv error" =>
    /\ materials = CsvRows(CsvStart(last.before, nextId),
                           WithoutRow(last.file, last.failAt),
                           Len(last.file) - 1).mats
    /\ last.status = 200

\* the rows of a scope with the two columns of the import set aside
NamesAndCodes(mats) ==
  [i \in DOMAIN mats |-> [id |-> mats[i].id, code |-> mats[i].code,
                          name |-> mats[i].name, renames |-> mats[i].renames]]

\* C26: a row of the file that finds its part code in the scope leaves the
\* stored dim_qty for an incoming 0 and the stored loss_percent for an
\* incoming 0, does not call the allocator, and changes no name, no part
\* code and no other material.
C26_UpdateKeepsOnZero ==
  last.outcome = "csv uploaded" =>
    \A s \in DOMAIN last.steps :
      LET step == last.steps[s]
          e    == ExistingMat(step.before, step.row.code)
      IN  step.path = "updated" =>
            /\ ~step.allocated
            /\ step.row.dim_qty = 0 => step.after[e].dim_qty = step.before[e].dim_qty
            /\ step.row.loss_percent = 0 =>
                 step.after[e].loss_percent = step.before[e].loss_percent
            /\ NamesAndCodes(step.after) = NamesAndCodes(step.before)
            /\ \A i \in DOMAIN step.before : i # e => step.after[i] = step.before[i]

\* an update with dim_qty 0 of a material stored with another dim_qty, next
\* to a second material
C26_Witness ==
  /\ last.outcome = "csv uploaded"
  /\ \E s \in DOMAIN last.steps :
       LET step == last.steps[s]
       IN  /\ step.path = "updated"
           /\ step.row.dim_qty = 0
           /\ step.row.loss_percent # 0
           /\ Len(step.before) >= 2
           /\ step.before[ExistingMat(step.before, step.row.code)].dim_qty # 0
           /\ step.before[ExistingMat(step.before, step.row.code)].loss_percent
                # step.row.loss_percent

(***************************************************************************)
(* Two add_customer_full requests for the same customer at the same time,  *)
(* each for a part code of another TEP code.  Inside its transaction a     *)
(* request reads the customer row with get_or_create, without a lock, and  *)
(* _ensure_customer_part_entry appends to the list it has read and saves   *)
(* the whole list; a step is the read, or the save with the commit.        *)
(***************************************************************************)
\* customer, _ = Customer.objects.get_or_create(customer_name=customer_name)
PartsRead(q, part_code, part_name) ==
  /\ reqs[q].pc = "idle"
  /\ reqs' = [reqs EXCEPT ![q] = [pc |-> "read", code |-> NormalizeSpace(part_code),
                                   base |-> NormalizeSpace(part_name), name |-> <<>>,
                                   customer |-> parts]]
  /\ UNCHANGED <<materials, nextId, last, renamedBases, run, parts, forecast, users>>

\* _ensure_customer_part_entry(customer, part_code, part_name) on the row as
\* read, customer.save(update_fields=["parts"]) if it appended, and the commit
PartsSave(q) ==
  /\ reqs[q].pc = "read"
  /\ \E e \in {EnsureCustomerPartEntry(reqs[q].customer, reqs[q].code, reqs[q].base)} :
       /\ parts' = IF e.changed THEN e.parts ELSE parts
       /\ reqs' = [reqs EXCEPT ![q] = [pc |-> "committed", code |-> reqs[q].code,
                                        base |-> reqs[q].base, name |-> e.used]]
  /\ UNCHANGED <<materials, nextId, last, renamedBases, run, forecast, users>>

NextConcParts ==
  \/ \E q \in Requests, pc \in OtherPartCodes, pn \in PartNameInputs :
       PartsRead(q, pc, pn)
  \/ \E q \in Requests : PartsSave(q)

SpecConcParts == Init /\ [][NextConcParts]_vars

\* C28: once two requests with different part codes have both committed,
\* customer.parts holds an entry for each of the two part codes.
C28_NoLostPartEntry ==
  (/\ \A q \in Requests : reqs[q].pc = "committed"
   /\ reqs[1].code # reqs[2].code)
  => \A q \in Requests : HasPart(parts, reqs[q].code)

(***************************************************************************)
(* User management on the dashboard.  A request reaches the view only for  *)
(* a logged-in account that is_admin() accepts: the issuer by is an active *)
(* superuser.  user_id is any id, of an account or of none.                *)
(***************************************************************************)
\* the number of accounts ever created (ids 1..MaxUsers)
MaxUsers == 3

\* employee_id of the form add_employee
EmployeeIds == {"e1", "e2"}

\* @login_required and @user_passes_test(is_admin) let the request through
IsAdmin(by) ==
  \E u \in users.rows : u.id = by /\ u.is_active /\ u.is_superuser

\* User.objects.get(id=user_id) finds a row
UserExists(user_id) == \E u \in users.rows : u.id = user_id

UserOf(user_id) == CHOOSE u \in users.rows : u.id = user_id

\* the test that is never true
IsSelf_Never(user_id, by) == FALSE

\* if u.id == request.user.id: the request is refused
IsSelf(user_id, by) == user_id = by

\* the rows with the row of user_id replaced by row
SaveUser(user_id, row) ==
  [users EXCEPT !.rows = (@ \ {UserOf(user_id)}) \cup {row}]

\* how the last user-management request ended
UserRequest(action, by, user_id, outcome) ==
  [outcome |-> outcome, action |-> action, by |-> by, user_id |-> user_id]

\* action toggle_user_active of admin_dashboard
ToggleUserActive(by, user_id) ==
  /\ IsAdmin(by)
  /\ UNCHANGED <<materials, nextId, renamedBases, run, reqs, parts, forecast>>
  /\ IF ~UserExists(user_id) \/ IsSelf(user_id, by)
     THEN /\ last' = UserRequest("toggle_user_active", by, user_id, "user refused")
          /\ UNCHANGED users
     ELSE /\ users' = SaveUser(user_id, [UserOf(user_id) EXCEPT !.is_active = ~@])
          /\ last' = UserRequest("toggle_user_active", by, user_id, "user updated")

\* the view toggle_user_active(request, user_id)
ToggleUserActiveView(by, user_id) ==
  /\ IsAdmin(by)
  /\ UNCHANGED <<materials, nextId, renamedBases, run, reqs, parts, forecast>>
  /\ IF ~UserExists(user_id) \/ IsSelf(user_id, by)
     THEN /\ last' = UserRequest("toggle_user_active view", by, user_id, "user refused")
          /\ UNCHANGED users
     ELSE /\ users' = SaveUser(user_id, [UserOf(user_id) EXCEPT !.is_active = ~@])
          /\ last' = UserRequest("toggle_user_active view", by, user_id, "user updated")

\* action toggle_user_admin of admin_dashboard
ToggleUserAdmin(by, user_id) ==
  /\ IsAdmin(by)
  /\ UNCHANGED <<materials, nextId, renamedBases, run, reqs, parts, forecast>>
  /\ IF ~UserExists(user_id) \/ IsSelf(user_id, by)
     THEN /\ last' = UserRequest("toggle_user_admin", by, user_id, "user refused")
          /\ UNCHANGED users
     ELSE /\ users' = SaveUser(user_id,
                        [UserOf(user_id) EXCEPT !.is_superuser = ~@, !.is_staff = TRUE])
          /\ last' = UserRequest("toggle_user_admin", by, user_id, "user updated")

\* action remove_staff of admin_dashboard
RemoveStaff(by, user_id) ==
  /\ IsAdmin(by)
  /\ UNCHANGED <<materials, nextId, renamedBases, run, reqs, parts, forecast>>
  /\ IF ~UserExists(user_id) \/ IsSelf(user_id, by)
     THEN /\ last' = UserRequest("remove_staff", by, user_id, "user refused")
          /\ UNCHANGED users
     ELSE /\ users' = [users EXCEPT !.rows = @ \ {UserOf(user_id)}]
          /\ last' = UserRequest("remove_staff", by, user_id, "user deleted")

\* action add_employee of admin_dashboard with all fields filled in
AddEmployee(by, employee_id) ==
  /\ IsAdmin(by)
  /\ UNCHANGED <<materials, nextId, renamedBases, run, reqs, parts, forecast>>
  /\ IF \E u \in users.rows : u.username = employee_id
     THEN /\ last' = UserRequest("add_employee", by, 0, "user refused")
          /\ UNCHANGED users
     ELSE /\ users.next <= MaxUsers
          /\ users' = [next |-> users.next + 1,
                       rows |-> users.rows \cup
                                  {Account(users.next, employee_id, TRUE, FALSE, TRUE)}]
          /\ last' = UserRequest("add_employee", by, users.next, "user created")

NextUsers ==
  \/ \E by, user_id \in 1..MaxUsers : ToggleUserActive(by, user_id)
  \/ \E by, user_id \in 1..MaxUsers : ToggleUserActiveView(by, user_id)
  \/ \E by, user_id \in 1..MaxUsers : ToggleUserAdmin(by, user_id)
  \/ \E by, user_id \in 1..MaxUsers : RemoveStaff(by, user_id)
  \/ \E by \in 1..MaxUsers, employee_id \in EmployeeIds : AddEmployee(by, employee_id)

SpecUsers == Init /\ [][NextUsers]_vars

\* C29: after every user-management request there is an active superuser
\* account, and the account that issued the request is still there, active
\* and a superuser.
C29_SuperuserRemains ==
  /\ \E u \in users.rows : u.is_active /\ u.is_superuser
  /\ last.outcome \in {"user refused", "user updated", "user deleted", "user created"}
       => IsAdmin(last.by)

\* the only superuser among several accounts asks for its own account and is
\* refused
C29_Witness ==
  /\ last.outcome = "user refused"
  /\ last.user_id = last.by
  /\ last.action \in {"toggle_user_active", "toggle_user_admin", "remove_staff"}
  /\ Cardinality({ u \in users.rows : u.is_active /\ u.is_superuser }) = 1
  /\ Cardinality(users.rows) >= 2

(***************************************************************************)
(* The suffix search of _unique_partname_for_customer.                     *)
(***************************************************************************)
\* C30: when the search for a suffix runs on a parts list of n entries (the
\* part code is new and the name is taken), it ends with a name 'base i'
\* whose number i is at least 1 and at most n.
C30_SuffixWithinLength ==
  \A pc \in CallPartCodes, pn \in CallPartNames :
    (~HasPart(parts, pc) /\ Lower(NormalizeSpace(pn)) \in ExistingPartnames(parts)) =>
      \E i \in 1..Len(parts) :
        UniquePartnameForCustomer(parts, pn, pc) =
          NormalizeSpace(pn) \o <<" ">> \o IntToStr(i)

\* a request has stored a name whose number is the length the list had
C30_Witness ==
  /\ last.outcome = "part added"
  /\ Len(parts) >= 3
  /\ parts[Len(parts)].code = last.code
  /\ parts[Len(parts)].name = last.base \o <<" ">> \o IntToStr(Len(parts) - 1)

====
